---------------------------- MODULE Spec2Model ----------------------------
(***************************************************************************)
(* Model of streamlit_app.py (Stock-Analyst-Pro): one run of the Streamlit *)
(* script for a submitted ticker.  The run fetches the EARNINGS and the    *)
(* TIME_SERIES_MONTHLY_ADJUSTED responses of the data provider, joins the  *)
(* annual EPS with a per-year close (prepare_fair_value_data), chooses a   *)
(* P/E multiple, derives the fair-value column, renders chart and table,   *)
(* and finally asks the language model for the growth initiatives.         *)
(*                                                                         *)
(* Floating-point values are modelled exactly: a value is a rational, NaN, *)
(* +inf or -inf, with the arithmetic pandas/numpy define on them.          *)
(***************************************************************************)
EXTENDS Integers, Sequences, FiniteSets

(***************************************************************************)
(* Bounds of the exploration.                                              *)
(***************************************************************************)
\* most observations in an explored monthly price series
MaxObs == 3

(***************************************************************************)
(* Float values: [k, n, d] with k in {"num","nan","pinf","ninf"}; a "num"  *)
(* is the rational n/d in lowest terms with d > 0.                         *)
(***************************************************************************)
Abs(x) == IF x < 0 THEN -x ELSE x

RECURSIVE GCD(_, _)
GCD(a, b) == IF b = 0 THEN a ELSE GCD(b, a % b)

Num(n, d) ==
    LET g == GCD(Abs(n), Abs(d))
        s == IF d < 0 THEN -1 ELSE 1
    IN [k |-> "num", n |-> (s * n) \div g, d |-> (s * d) \div g]

NaN  == [k |-> "nan",  n |-> 0, d |-> 1]
PInf == [k |-> "pinf", n |-> 0, d |-> 1]
NInf == [k |-> "ninf", n |-> 0, d |-> 1]
\* a Python name that has not been bound yet
Unset == [k |-> "unset", n |-> 0, d |-> 1]

IsNum(x) == x.k = "num"
IsNaN(x) == x.k = "nan"
\* -1, 0, 1 for a number or an infinity
Sign(x) ==
    CASE x.k = "pinf" -> 1
      [] x.k = "ninf" -> -1
      [] OTHER -> IF x.n > 0 THEN 1 ELSE IF x.n < 0 THEN -1 ELSE 0
Signed(s) == IF s > 0 THEN PInf ELSE IF s < 0 THEN NInf ELSE NaN

\* a / b of two float64 columns (line 58): x/0 is +-inf, 0/0 is NaN
FDiv(a, b) ==
    IF IsNaN(a) \/ IsNaN(b) THEN NaN
    ELSE IF IsNum(a) /\ IsNum(b)
         THEN IF b.n = 0 THEN Signed(Sign(a)) ELSE Num(a.n * b.d, a.d * b.n)
    ELSE IF IsNum(b) THEN (IF b.n < 0 THEN Signed(-Sign(a)) ELSE Signed(Sign(a)))
    ELSE IF IsNum(a) THEN Num(0, 1)
    ELSE NaN

\* a * b of float64 values (line 120): inf * 0 is NaN
FMul(a, b) ==
    IF IsNaN(a) \/ IsNaN(b) THEN NaN
    ELSE IF IsNum(a) /\ IsNum(b) THEN Num(a.n * b.n, a.d * b.d)
    ELSE Signed(Sign(a) * Sign(b))

FAdd(a, b) ==
    IF IsNaN(a) \/ IsNaN(b) THEN NaN
    ELSE IF IsNum(a) /\ IsNum(b) THEN Num(a.n * b.d + b.n * a.d, a.d * b.d)
    ELSE IF IsNum(a) THEN b
    ELSE IF IsNum(b) THEN a
    ELSE IF a.k = b.k THEN a ELSE NaN

RECURSIVE FSum(_)
FSum(s) == IF s = <<>> THEN Num(0, 1) ELSE FAdd(Head(s), FSum(Tail(s)))

NotNaN(x) == ~IsNaN(x)

\* Series.mean(): NaN entries are skipped; the mean of no entry is NaN
Mean(s) ==
    LET v == SelectSeq(s, NotNaN)
    IN IF v = <<>> THEN NaN ELSE FDiv(FSum(v), Num(Len(v), 1))

(***************************************************************************)
(* Provider payloads.  A date is <<year, month>>; raw values are the JSON  *)
(* strings of the provider.                                                *)
(***************************************************************************)
Year(date) == date[1]
DateLess(a, b) == a[1] < b[1] \/ (a[1] = b[1] /\ a[2] < b[2])

RawEps   == {"None", "-1.25", "0", "2.5"}
RawClose == {"n/a", "10.00", "25.00"}

\* pd.to_numeric(..., errors='coerce') on the raw strings
ToNumeric(raw) ==
    CASE raw = "-1.25" -> Num(-5, 4)
      [] raw = "0"     -> Num(0, 1)
      [] raw = "2.5"   -> Num(5, 2)
      [] raw = "10.00" -> Num(10, 1)
      [] raw = "25.00" -> Num(25, 1)
      [] OTHER         -> NaN

EpsDates   == {<<2019, 12>>, <<2020, 12>>, <<2021, 3>>, <<2021, 12>>}
PriceDates == {<<2019, 12>>, <<2020, 12>>, <<2021, 11>>, <<2021, 12>>}

\* sequences of length k over S without repetition
InjSeqs(S, k) == {s \in [1..k -> S] : \A i, j \in 1..k : s[i] = s[j] => i = j}

\* annualEarnings lists: each fiscal period of EpsDates listed at most once, in
\* any order, with any reported EPS
EarningsBodies ==
    UNION {{[i \in 1..k |-> [fiscalDateEnding |-> ds[i], reportedEPS |-> rs[i]]] :
               ds \in InjSeqs(EpsDates, k), rs \in [1..k -> RawEps]} :
           k \in 0..Cardinality(EpsDates)}

\* "Monthly Adjusted Time Series" objects: date keys are unique, in any order
PriceBodies ==
    UNION {{[i \in 1..k |-> [date |-> ds[i], close |-> cs[i]]] :
               ds \in InjSeqs(PriceDates, k), cs \in [1..k -> RawClose]} :
           k \in 0..(IF MaxObs < Cardinality(PriceDates) THEN MaxObs ELSE Cardinality(PriceDates))}

\* the JSON object {} (what get_alpha_vantage_data returns on a sentinel)
EmptyDict == [keys |-> {}, body |-> <<>>]

EarningsKey == "annualEarnings"
PricesKey   == "Monthly Adjusted Time Series"
\* top-level fields of a provider answer that carries no data
SentinelKeys == {"Note", "Error Message", "Information"}

\* answers without the data key carry no list; a data answer may also carry a notice
Responses(key, bodies, ref) ==
    {[keys |-> {key}, body |-> b] : b \in bodies}
      \cup {[keys |-> ks, body |-> <<>>] : ks \in SUBSET SentinelKeys}
      \cup {[keys |-> ks \cup {key}, body |-> ref] : ks \in (SUBSET SentinelKeys) \ {{}}}

\* reference payloads, most recent first as the provider sends them: a history
\* of HistoryYears fiscal years ending in 2021, and a short irregular one
HistoryYears == 11
HistoryEarnings ==
    [i \in 1..HistoryYears |->
        [fiscalDateEnding |-> <<2022 - i, 12>>,
         reportedEPS      |-> IF i % 4 = 0 THEN "-1.25" ELSE "2.5"]]
HistoryPrices ==
    << [date |-> <<2021, 12>>, close |-> "25.00"],
       [date |-> <<2021, 11>>, close |-> "10.00"] >>
    \o [i \in 1..(HistoryYears - 1) |->
          [date |-> <<2021 - i, 12>>, close |-> IF i % 3 = 0 THEN "25.00" ELSE "10.00"]]
RefEarningsBodies ==
    { HistoryEarnings,
      << [fiscalDateEnding |-> <<2021, 12>>, reportedEPS |-> "2.5"],
         [fiscalDateEnding |-> <<2021, 3>>,  reportedEPS |-> "None"],
         [fiscalDateEnding |-> <<2020, 12>>, reportedEPS |-> "2.5"] >> }
RefPriceBodies ==
    { HistoryPrices,
      << [date |-> <<2021, 12>>, close |-> "n/a"],
         [date |-> <<2020, 12>>, close |-> "10.00"] >> }

RefEarningsResponses == {[keys |-> {EarningsKey}, body |-> b] : b \in RefEarningsBodies}
RefPriceResponses    == {[keys |-> {PricesKey}, body |-> b] : b \in RefPriceBodies}
EarningsResponses ==
    Responses(EarningsKey, EarningsBodies \cup RefEarningsBodies, HistoryEarnings)
PriceResponses ==
    Responses(PricesKey, PriceBodies \cup RefPriceBodies, HistoryPrices)

\* every earnings answer against the reference prices, and every price answer
\* against the reference earnings
Scenarios ==
    (EarningsResponses \X (RefPriceResponses \cup {EmptyDict}))
      \cup ((RefEarningsResponses \cup {EmptyDict}) \X PriceResponses)

(***************************************************************************)
(* get_alpha_vantage_data, lines 10-23: the answer, or {} after st.error   *)
(***************************************************************************)
\* variant that misses the "Error Message" check of lines 19-21
get_alpha_vantage_data_note_only(data) ==
    IF "Note" \in data.keys
    THEN [ret |-> EmptyDict, ev |-> <<"st.error:API limit reached">>]
    ELSE [ret |-> data, ev |-> <<>>]

get_alpha_vantage_data(data) ==
    IF "Note" \in data.keys
    THEN [ret |-> EmptyDict, ev |-> <<"st.error:API limit reached">>]
    ELSE IF "Error Message" \in data.keys
    THEN [ret |-> EmptyDict, ev |-> <<"st.error:Invalid API request">>]
    ELSE [ret |-> data, ev |-> <<>>]

(***************************************************************************)
(* Data frames: [columns, rows].  pd.DataFrame() has neither.              *)
(***************************************************************************)
NoFrame == [columns |-> <<>>, rows |-> <<>>]
\* DataFrame.empty: some axis has length 0
Empty(df) == df.columns = <<>> \/ df.rows = <<>>

RECURSIVE SetToSortedSeq(_)
SetToSortedSeq(S) ==
    IF S = {} THEN <<>>
    ELSE LET m == CHOOSE x \in S : \A y \in S : x <= y
         IN <<m>> \o SetToSortedSeq(S \ {m})

\* lines 42-44: the frame of the records, Year and the coerced reportedEPS
EpsRows(body) ==
    [i \in 1..Len(body) |->
        [fiscalDateEnding |-> body[i].fiscalDateEnding,
         reportedEPS      |-> ToNumeric(body[i].reportedEPS),
         Year             |-> Year(body[i].fiscalDateEnding)]]

\* line 45, dropna(): rows holding a missing value go
HasEps(r) == ~IsNaN(r.reportedEPS)
DropNa(rows) == SelectSeq(rows, HasEps)

\* the orders of the row indices idx by ascending Year, ties in any order
RECURSIVE YearOrders(_, _)
YearOrders(rows, idx) ==
    IF idx = {} THEN {<<>>}
    ELSE LET first == {i \in idx : \A j \in idx : rows[i].Year <= rows[j].Year}
         IN UNION {{<<i>> \o t : t \in YearOrders(rows, idx \ {i})} : i \in first}

\* line 45, sort_values('Year'): the default sort (quicksort) is not stable, so
\* the rows of one year come out in any order
SortValuesByYear(rows) ==
    {[i \in 1..Len(rows) |-> rows[o[i]]] : o \in YearOrders(rows, 1..Len(rows))}

\* lines 48-51: one row per date key, in the order of the keys
PriceRows(body) ==
    [i \in 1..Len(body) |->
        [date           |-> body[i].date,
         adjusted_close |-> ToNumeric(body[i].close),
         Year           |-> Year(body[i].date)]]

\* GroupBy.last(): the last value of the group, in row order, that is not NaN
LastValid(col) ==
    LET v == SelectSeq(col, NotNaN)
    IN IF v = <<>> THEN NaN ELSE v[Len(v)]

\* line 52: groups in ascending Year, each reduced by last()
GroupByYearLast(rows) ==
    LET years == SetToSortedSeq({rows[i].Year : i \in 1..Len(rows)})
        Group(y) == LET InYear(r) == r.Year = y IN SelectSeq(rows, InYear)
        Col(g) == [i \in 1..Len(g) |-> g[i].adjusted_close]
    IN [j \in 1..Len(years) |->
           [Year |-> years[j], adjusted_close |-> LastValid(Col(Group(years[j])))]]

\* line 55: inner join on Year, in the order of the left rows
RECURSIVE Merge(_, _)
Merge(left, right) ==
    IF left = <<>> THEN <<>>
    ELSE LET l == Head(left)
             Match(r) == r.Year = l.Year
             m == SelectSeq(right, Match)
         IN [j \in 1..Len(m) |->
                [fiscalDateEnding |-> l.fiscalDateEnding,
                 reportedEPS      |-> l.reportedEPS,
                 Year             |-> l.Year,
                 adjusted_close   |-> m[j].adjusted_close]]
            \o Merge(Tail(left), right)

\* line 58: the realized multiple of each row
WithPeRatio(rows) ==
    [i \in 1..Len(rows) |->
        [fiscalDateEnding |-> rows[i].fiscalDateEnding,
         reportedEPS      |-> rows[i].reportedEPS,
         Year             |-> rows[i].Year,
         adjusted_close   |-> rows[i].adjusted_close,
         pe_ratio         |-> FDiv(rows[i].adjusted_close, rows[i].reportedEPS)]]

EpsColumns    == <<"fiscalDateEnding", "reportedEPS", "Year">>
PriceColumns  == <<"Year", "adjusted_close">>
MergedColumns == <<"fiscalDateEnding", "reportedEPS", "Year", "adjusted_close", "pe_ratio">>


(***************************************************************************)
(* prepare_fair_value_data, lines 37-60.  The function either raises       *)
(* KeyError (a frame without the column it reads) or returns a frame.      *)
(***************************************************************************)
\* line 38: both data keys must be present
HasBothKeys(e, p) == EarningsKey \in e.keys /\ PricesKey \in p.keys

\* lines 42-43 and 48-50: a frame built from no record has no column to read
PrepareRaises(e, p) == HasBothKeys(e, p) /\ (e.body = <<>> \/ p.body = <<>>)

\* line 43 comes first: the earnings frame is read before the price frame
PrepareException(e, p) ==
    IF e.body = <<>> THEN "KeyError: 'fiscalDateEnding'" ELSE "KeyError: '5. adjusted close'"

\* lines 42-45: the EPS frames the sort may produce
EpsFrames(e) ==
    {[columns |-> EpsColumns, rows |-> s] : s \in SortValuesByYear(DropNa(EpsRows(e.body)))}

\* lines 48-52
PriceFrame(p) == [columns |-> PriceColumns, rows |-> GroupByYearLast(PriceRows(p.body))]

\* lines 55-60
MergedFrame(eps, price) ==
    [columns |-> MergedColumns, rows |-> WithPeRatio(Merge(eps.rows, price.rows))]

(***************************************************************************)
(* The P/E options of the select box (lines 96-114) and the fair value     *)
(* (line 120).                                                             *)
(***************************************************************************)
PeOptions ==
    {"Average of All Years", "Average of Last 3 Years", "Average of Last 5 Years",
     "Average of Last 10 Years", "Custom P/E Multiple"}

\* DataFrame.tail(n): the last n rows, all of them when there are fewer
TailRows(rows, n) ==
    IF Len(rows) <= n THEN rows ELSE SubSeq(rows, Len(rows) - n + 1, Len(rows))

PeColumn(rows) == [i \in 1..Len(rows) |-> rows[i].pe_ratio]

\* lines 105-110: the window of an "Average of Last N Years" option
WindowOf(option) ==
    CASE option = "Average of Last 3 Years"  -> 3
      [] option = "Average of Last 5 Years"  -> 5
      [] option = "Average of Last 10 Years" -> 10
      [] OTHER -> 0

\* lines 102-110, 114: the multiple of the averaging options
AveragePe(option, rows) ==
    IF WindowOf(option) > 0
    THEN Mean(PeColumn(TailRows(rows, WindowOf(option))))
    ELSE Mean(PeColumn(rows))

\* line 112: values the user may type into the number input (min_value 0.0)
CustomInputs == {Num(0, 1), Num(15, 1)}

\* line 112: st.number_input refuses a default below min_value or out of the
\* float range with a StreamlitAPIException
NumberInputRaises(default) ==
    (IsNum(default) /\ default.n < 0) \/ default.k \in {"pinf", "ninf"}

\* variant that multiplies each row by its own pe_ratio instead of the scalar
WithFairValueOwnPe(rows, pe) ==
    [i \in 1..Len(rows) |->
        [fiscalDateEnding |-> rows[i].fiscalDateEnding,
         reportedEPS      |-> rows[i].reportedEPS,
         Year             |-> rows[i].Year,
         adjusted_close   |-> rows[i].adjusted_close,
         pe_ratio         |-> rows[i].pe_ratio,
         fair_value       |-> FMul(rows[i].reportedEPS, rows[i].pe_ratio)]]

\* line 120: one scalar broadcast over the reportedEPS column
WithFairValue(rows, pe) ==
    [i \in 1..Len(rows) |->
        [fiscalDateEnding |-> rows[i].fiscalDateEnding,
         reportedEPS      |-> rows[i].reportedEPS,
         Year             |-> rows[i].Year,
         adjusted_close   |-> rows[i].adjusted_close,
         pe_ratio         |-> rows[i].pe_ratio,
         fair_value       |-> FMul(rows[i].reportedEPS, pe)]]

ValuedColumns == MergedColumns \o <<"fair_value">>

(***************************************************************************)
(* get_company_growth_initiatives_openai, lines 63-80.                     *)
(***************************************************************************)
Fallback == "Could not fetch growth initiatives."
Summary  == "growth initiatives summary"
\* where the call may fail: reading st.secrets, constructing the client,
\* the completion request, reading the response
Faults == {"none", "secrets", "client", "request", "read"}

\* line 64 is outside the try block: its failures leave the function
NarrativeRaises(fault) == fault \in {"secrets", "client"}
NarrativeException(fault) == IF fault = "secrets" THEN "KeyError: 'openai'" ELSE "OpenAIError"

\* lines 67-80
NarrativeEvents(fault) ==
    CASE fault = "none"    -> <<"openai:chat.completions.create">>
      [] fault = "read"    -> <<"openai:chat.completions.create",
                                "st.error:Failed to fetch growth initiatives">>
      [] fault = "request" -> <<"openai:chat.completions.create",
                                "st.error:Failed to fetch growth initiatives">>
      [] OTHER -> <<>>
NarrativeResult(fault) == IF fault = "none" THEN Summary ELSE Fallback

(***************************************************************************)
(* State of one script run.                                                *)
(***************************************************************************)
VARIABLES
    pc,                 \* position of the script
    exc,                \* the exception that ended the run, or "none"
    out,                \* requests issued and Streamlit elements written, in order
    stock_ticker,       \* line 86
    earnings_resp,      \* the provider's answer to EARNINGS (data, line 14)
    prices_resp,        \* the provider's answer to TIME_SERIES_MONTHLY_ADJUSTED
    earnings,           \* line 89
    stock_prices,       \* line 89
    eps_df,             \* line 45
    price_df,           \* line 52
    fair_value_df,      \* lines 90 and 120
    pe_option,          \* line 96
    default_avg_pe,     \* line 102
    avg_pe,             \* lines 105-114
    openai_fault,       \* how the call of line 155 went (one of Faults), "" before it
    growth_initiatives  \* line 155

vars == <<pc, exc, out, stock_ticker, earnings_resp, prices_resp, earnings,
          stock_prices, eps_df, price_df, fair_value_df, pe_option,
          default_avg_pe, avg_pe, openai_fault, growth_initiatives>>

Tickers == {"", "AAPL"}

Init ==
    /\ pc = "input"
    /\ exc = "none"
    /\ out = <<>>
    /\ stock_ticker = ""
    /\ earnings_resp = EmptyDict
    /\ prices_resp = EmptyDict
    /\ earnings = EmptyDict
    /\ stock_prices = EmptyDict
    /\ eps_df = NoFrame
    /\ price_df = NoFrame
    /\ fair_value_df = NoFrame
    /\ pe_option = ""
    /\ default_avg_pe = Unset
    /\ avg_pe = Unset
    /\ openai_fault = ""
    /\ growth_initiatives = ""

\* lines 86-88: the text input; an empty ticker ends the run
Submit ==
    /\ pc = "input"
    /\ \E t \in Tickers :
          /\ stock_ticker' = t
          /\ pc' = IF t = "" THEN "done" ELSE "fetch"
    /\ UNCHANGED <<exc, out, earnings_resp, prices_resp, earnings, stock_prices,
                   eps_df, price_df, fair_value_df, pe_option, default_avg_pe,
                   avg_pe, openai_fault, growth_initiatives>>

\* fetch_eps_and_prices, lines 25-34 (called at line 89)
FetchEvents(e, p) ==
    <<"st.write:Fetching EPS and Stock Price Data">>
      \o <<"requests.get:EARNINGS">> \o get_alpha_vantage_data(e).ev
      \o <<"requests.get:TIME_SERIES_MONTHLY_ADJUSTED">> \o get_alpha_vantage_data(p).ev
      \o (IF get_alpha_vantage_data(e).ret.keys = {} \/ get_alpha_vantage_data(p).ret.keys = {}
          THEN <<"st.warning:Some data could not be retrieved">> ELSE <<>>)

fetch_eps_and_prices ==
    /\ pc = "fetch"
    /\ \E sc \in Scenarios :
          /\ earnings_resp' = sc[1]
          /\ prices_resp' = sc[2]
          /\ earnings' = get_alpha_vantage_data(sc[1]).ret
          /\ stock_prices' = get_alpha_vantage_data(sc[2]).ret
          /\ out' = out \o FetchEvents(sc[1], sc[2])
    /\ pc' = "prepare"
    /\ UNCHANGED <<exc, stock_ticker, eps_df, price_df, fair_value_df, pe_option,
                   default_avg_pe, avg_pe, openai_fault, growth_initiatives>>

\* line 90: fair_value_df = prepare_fair_value_data(earnings, stock_prices)
prepare_fair_value_data ==
    /\ pc = "prepare"
    /\ \/ /\ ~HasBothKeys(earnings, stock_prices)
          /\ fair_value_df' = NoFrame
          /\ pc' = "valuation"
          /\ UNCHANGED <<exc, eps_df, price_df>>
       \/ /\ PrepareRaises(earnings, stock_prices)
          /\ exc' = PrepareException(earnings, stock_prices)
          /\ pc' = "done"
          /\ UNCHANGED <<eps_df, price_df, fair_value_df>>
       \/ /\ HasBothKeys(earnings, stock_prices)
          /\ ~PrepareRaises(earnings, stock_prices)
          /\ \E f \in EpsFrames(earnings) :
                /\ eps_df' = f
                /\ price_df' = PriceFrame(stock_prices)
                /\ fair_value_df' = MergedFrame(f, PriceFrame(stock_prices))
          /\ pc' = "valuation"
          /\ UNCHANGED exc
    /\ UNCHANGED <<out, stock_ticker, earnings_resp, prices_resp, earnings,
                   stock_prices, pe_option, default_avg_pe, avg_pe, openai_fault,
                   growth_initiatives>>

\* lines 92-150: the settings, the multiple, the fair value, chart and table,
\* or the warning
Valuation ==
    /\ pc = "valuation"
    /\ \/ /\ Empty(fair_value_df)
          /\ out' = out \o <<"st.warning:Not enough data to calculate fair value">>
          /\ pc' = "narrative"
          /\ UNCHANGED <<exc, fair_value_df, pe_option, default_avg_pe, avg_pe>>
       \/ /\ ~Empty(fair_value_df)
          /\ \E option \in PeOptions \ {"Custom P/E Multiple"} :
                /\ pe_option' = option
                /\ default_avg_pe' = Mean(PeColumn(fair_value_df.rows))
                /\ avg_pe' = AveragePe(option, fair_value_df.rows)
          /\ fair_value_df' = [columns |-> ValuedColumns,
                               rows |-> WithFairValue(fair_value_df.rows, avg_pe')]
          /\ out' = out \o <<"st.subheader:Fair Value Estimation Settings",
                             "st.write:P/E Multiple Used", "st.pyplot", "st.dataframe">>
          /\ pc' = "narrative"
          /\ UNCHANGED exc
       \/ /\ ~Empty(fair_value_df)
          /\ ~NumberInputRaises(Mean(PeColumn(fair_value_df.rows)))
          /\ pe_option' = "Custom P/E Multiple"
          /\ default_avg_pe' = Mean(PeColumn(fair_value_df.rows))
          /\ avg_pe' \in CustomInputs \cup {default_avg_pe'}
          /\ fair_value_df' = [columns |-> ValuedColumns,
                               rows |-> WithFairValue(fair_value_df.rows, avg_pe')]
          /\ out' = out \o <<"st.subheader:Fair Value Estimation Settings",
                             "st.write:P/E Multiple Used", "st.pyplot", "st.dataframe">>
          /\ pc' = "narrative"
          /\ UNCHANGED exc
       \/ /\ ~Empty(fair_value_df)
          /\ NumberInputRaises(Mean(PeColumn(fair_value_df.rows)))
          /\ pe_option' = "Custom P/E Multiple"
          /\ default_avg_pe' = Mean(PeColumn(fair_value_df.rows))
          /\ exc' = "StreamlitAPIException"
          /\ out' = out \o <<"st.subheader:Fair Value Estimation Settings">>
          /\ pc' = "done"
          /\ UNCHANGED <<fair_value_df, avg_pe>>
    /\ UNCHANGED <<stock_ticker, earnings_resp, prices_resp, earnings, stock_prices,
                   eps_df, price_df, openai_fault, growth_initiatives>>

\* lines 152-156: the growth initiatives, after either branch
Narrative ==
    /\ pc = "narrative"
    /\ \E fault \in Faults :
          /\ openai_fault' = fault
          /\ \/ /\ NarrativeRaises(fault)
                /\ exc' = NarrativeException(fault)
                /\ out' = out \o <<"st.subheader:Company Growth Initiatives and Timeline">>
                /\ UNCHANGED growth_initiatives
             \/ /\ ~NarrativeRaises(fault)
                /\ growth_initiatives' = NarrativeResult(fault)
                /\ out' = out \o <<"st.subheader:Company Growth Initiatives and Timeline">>
                              \o NarrativeEvents(fault)
                              \o <<"st.write:growth_initiatives">>
                /\ UNCHANGED exc
    /\ pc' = "done"
    /\ UNCHANGED <<stock_ticker, earnings_resp, prices_resp, earnings, stock_prices,
                   eps_df, price_df, fair_value_df, pe_option, default_avg_pe, avg_pe>>

\* a new interaction runs the script again from the top
Rerun ==
    /\ pc = "done"
    /\ pc' = "input"
    /\ exc' = "none"
    /\ out' = <<>>
    /\ stock_ticker' = ""
    /\ earnings_resp' = EmptyDict
    /\ prices_resp' = EmptyDict
    /\ earnings' = EmptyDict
    /\ stock_prices' = EmptyDict
    /\ eps_df' = NoFrame
    /\ price_df' = NoFrame
    /\ fair_value_df' = NoFrame
    /\ pe_option' = ""
    /\ default_avg_pe' = Unset
    /\ avg_pe' = Unset
    /\ openai_fault' = ""
    /\ growth_initiatives' = ""

Next ==
    \/ Submit
    \/ fetch_eps_and_prices
    \/ prepare_fair_value_data
    \/ Valuation
    \/ Narrative
    \/ Rerun

Spec == Init /\ [][Next]_vars


(***************************************************************************)
(* Vocabulary of the properties.                                           *)
(***************************************************************************)
Has(ev) == \E i \in 1..Len(out) : out[i] = ev
Count(ev) == Cardinality({i \in 1..Len(out) : out[i] = ev})
\* ev occurs once, and before every occurrence of later
Before(ev, later) ==
    \A i, j \in 1..Len(out) : (out[i] = ev /\ out[j] = later) => i < j

\* prepare_fair_value_data has returned a joined frame
Prepared == eps_df.columns = EpsColumns
\* line 120 has run
Valued == fair_value_df.columns = ValuedColumns
Rendered == Has("st.pyplot") /\ Has("st.dataframe")
Warned == Has("st.warning:Not enough data to calculate fair value")

\* C1: every earnings record whose reportedEPS is not numeric or is not
\* positive is absent from the EPS series and from the joined rows
C1_NonPositiveEpsExcluded ==
    Prepared =>
        \A k \in 1..Len(earnings.body) :
            LET v == ToNumeric(earnings.body[k].reportedEPS)
                d == earnings.body[k].fiscalDateEnding
            IN (~IsNum(v) \/ v.n <= 0) =>
                  /\ \A i \in 1..Len(eps_df.rows) : eps_df.rows[i].fiscalDateEnding # d
                  /\ \A i \in 1..Len(fair_value_df.rows) :
                        fair_value_df.rows[i].fiscalDateEnding # d

\* the observation of year y with the latest date among those with a numeric close
LatestOf(body, y) ==
    LET obs == {k \in 1..Len(body) : Year(body[k].date) = y /\ IsNum(ToNumeric(body[k].close))}
    IN IF obs = {} THEN 0
       ELSE CHOOSE k \in obs : \A j \in obs : ~DateLess(body[k].date, body[j].date)

\* C2: whatever the order of the date keys, the price series has at most one row
\* per year, holding the adjusted close of the latest-dated observation of that
\* year
C2_YearCloseIsLatestDated ==
    Prepared =>
        /\ \A i, j \in 1..Len(price_df.rows) :
              price_df.rows[i].Year = price_df.rows[j].Year => i = j
        /\ \A i \in 1..Len(price_df.rows) :
              LET k == LatestOf(stock_prices.body, price_df.rows[i].Year)
              IN k # 0 => price_df.rows[i].adjusted_close = ToNumeric(stock_prices.body[k].close)

\* pairs of an EPS row and a price row of the same year: the inner join
JoinPairs ==
    {ij \in (1..Len(eps_df.rows)) \X (1..Len(price_df.rows)) :
        eps_df.rows[ij[1]].Year = price_df.rows[ij[2]].Year}

\* C3: the fair-value step keeps the joined rows (as many as the inner join by
\* year has), leaves Year, reportedEPS, adjusted_close and pe_ratio as they were
\* and sets fair_value to reportedEPS times the one multiple of the policy
C3_FairValueBroadcast ==
    Valued =>
        LET rows == fair_value_df.rows
            merged == MergedFrame(eps_df, price_df).rows
        IN /\ Len(rows) = Cardinality(JoinPairs)
           /\ Len(rows) = Len(merged)
           /\ pe_option \in PeOptions
           /\ pe_option # "Custom P/E Multiple" => avg_pe = AveragePe(pe_option, merged)
           /\ pe_option = "Custom P/E Multiple" =>
                 avg_pe = default_avg_pe \/ (IsNum(avg_pe) /\ avg_pe.n >= 0)
           /\ \A i \in 1..Len(rows) :
                 /\ rows[i].fair_value = FMul(rows[i].reportedEPS, avg_pe)
                 /\ rows[i].Year = merged[i].Year
                 /\ rows[i].reportedEPS = merged[i].reportedEPS
                 /\ rows[i].adjusted_close = merged[i].adjusted_close
                 /\ rows[i].pe_ratio = merged[i].pe_ratio

\* rows with different realized multiples are valued with one finite multiple,
\* and the join has dropped a price year without EPS
C3_Witness ==
    /\ Valued
    /\ IsNum(avg_pe)
    /\ \E i, j \in 1..Len(fair_value_df.rows) :
          /\ IsNum(fair_value_df.rows[i].pe_ratio)
          /\ IsNum(fair_value_df.rows[j].pe_ratio)
          /\ fair_value_df.rows[i].pe_ratio # fair_value_df.rows[j].pe_ratio
    /\ \E j \in 1..Len(price_df.rows) :
          \A i \in 1..Len(eps_df.rows) : eps_df.rows[i].Year # price_df.rows[j].Year

\* the sum of the pe_ratio of the rows idx
RECURSIVE SumPe(_, _)
SumPe(rows, idx) ==
    IF idx = {} THEN Num(0, 1)
    ELSE LET i == CHOOSE x \in idx : TRUE
         IN FAdd(rows[i].pe_ratio, SumPe(rows, idx \ {i}))

\* the arithmetic mean of the realized (not NaN) pe_ratio of the last n rows
WindowMean(rows, n) ==
    LET lo  == IF Len(rows) > n THEN Len(rows) - n + 1 ELSE 1
        idx == {i \in lo..Len(rows) : ~IsNaN(rows[i].pe_ratio)}
    IN IF idx = {} THEN NaN ELSE FDiv(SumPe(rows, idx), Num(Cardinality(idx), 1))

\* the n largest years among the rows (all of them when there are fewer)
RECURSIVE RecentYears(_, _)
RecentYears(years, n) ==
    IF n = 0 \/ years = {} THEN {}
    ELSE LET m == CHOOSE y \in years : \A z \in years : z <= y
         IN {m} \cup RecentYears(years \ {m}, n - 1)

\* C4: under "Average of Last N Years" the multiple is the mean of the realized
\* pe_ratio of the final N rows in ascending year order, which are the rows of
\* the N most recent years; with fewer than N rows it is the mean over all
\* rows, the "Average of All Years" value, and nothing is raised
C4_LastNMostRecentYears ==
    (Valued /\ WindowOf(pe_option) > 0) =>
        LET rows   == fair_value_df.rows
            n      == WindowOf(pe_option)
            lo     == IF Len(rows) > n THEN Len(rows) - n + 1 ELSE 1
            recent == RecentYears({rows[i].Year : i \in 1..Len(rows)}, n)
        IN /\ avg_pe = WindowMean(rows, n)
           /\ \A i \in 1..(Len(rows) - 1) : rows[i].Year <= rows[i + 1].Year
           /\ {i \in 1..Len(rows) : rows[i].Year \in recent} = lo..Len(rows)
           /\ Len(rows) <= n =>
                 /\ avg_pe = WindowMean(rows, Len(rows))
                 /\ avg_pe = default_avg_pe
           /\ pc = "narrative" => exc = "none"
           /\ Rendered

\* a provider answer that carries a notice or an error message, or lacks its data
Unusable(resp, key) ==
    "Note" \in resp.keys \/ "Error Message" \in resp.keys \/ key \notin resp.keys

\* C5: when either answer carries "Note" or "Error Message" or lacks its data
\* key, prepare_fair_value_data returns an empty frame without raising and the
\* run takes the warning branch: no multiple, no chart, no table
C5_UnusableAnswerWarns ==
    (stock_ticker # "" /\ pc \in {"valuation", "narrative", "done"}
       /\ (Unusable(earnings_resp, EarningsKey) \/ Unusable(prices_resp, PricesKey))) =>
        /\ Empty(fair_value_df)
        /\ ~Prepared
        /\ avg_pe = Unset /\ default_avg_pe = Unset
        /\ ~Has("st.pyplot") /\ ~Has("st.dataframe") /\ ~Has("st.write:P/E Multiple Used")
        /\ pc \in {"valuation", "narrative"} => exc = "none"
        /\ pc \in {"narrative", "done"} => Warned

\* an answer with data and an error message beside it ends in the warning
C5_Witness ==
    /\ pc = "done"
    /\ earnings_resp.keys = {"Error Message", EarningsKey}
    /\ earnings_resp.body # <<>>
    /\ prices_resp.keys = {PricesKey}
    /\ Warned

\* C6: the run never crashes in the valuation and never charts an undefined
\* multiple: a payload without records, an empty join or an all-undefined
\* window ends in the warning
C6_NoCrashNoNaN ==
    /\ exc \notin {"KeyError: 'fiscalDateEnding'", "KeyError: '5. adjusted close'",
                   "StreamlitAPIException"}
    /\ Has("st.pyplot") => ~IsNaN(avg_pe)

\* what a DCF engine would show: the intrinsic value or the invalid-assumption flag
DcfOutputs == {"dcf:intrinsic_value", "dcf:InvalidAssumption"}

\* C7: a run that has an EPS series ends with a DCF result: the intrinsic value,
\* or the InvalidAssumption signal when wacc <= terminal_growth
C7_DcfResultProduced ==
    (pc = "done" /\ exc = "none" /\ Prepared /\ eps_df.rows # <<>>) =>
        \E i \in 1..Len(out) : out[i] \in DcfOutputs

\* C8: the joined rows are in strictly ascending year order
C8_YearsStrictlyAscending ==
    \A i \in 1..(Len(fair_value_df.rows) - 1) :
        fair_value_df.rows[i].Year < fair_value_df.rows[i + 1].Year

\* C9: whatever fails in get_company_growth_initiatives_openai, the fallback
\* string is returned and displayed and nothing propagates
C9_FailureYieldsFallback ==
    openai_fault \in Faults \ {"none"} =>
        /\ growth_initiatives = Fallback
        /\ Has("st.write:growth_initiatives")
        /\ exc = "none"

\* C10: a run with a ticker fetches earnings, then prices, then either renders
\* chart and table or warns, then requests the summary exactly once; a run
\* without a ticker does none of it
C10_StepOrder ==
    pc = "done" =>
        IF stock_ticker = "" THEN out = <<>>
        ELSE /\ Count("requests.get:EARNINGS") = 1
             /\ Count("requests.get:TIME_SERIES_MONTHLY_ADJUSTED") = 1
             /\ Before("requests.get:EARNINGS", "requests.get:TIME_SERIES_MONTHLY_ADJUSTED")
             /\ Rendered # Warned
             /\ Count("st.pyplot") + Count("st.warning:Not enough data to calculate fair value") = 1
             /\ Before("requests.get:TIME_SERIES_MONTHLY_ADJUSTED", "st.pyplot")
             /\ Before("requests.get:TIME_SERIES_MONTHLY_ADJUSTED",
                       "st.warning:Not enough data to calculate fair value")
             /\ Before("st.pyplot", "st.dataframe")
             /\ Count("openai:chat.completions.create") = 1
             /\ Before("st.dataframe", "openai:chat.completions.create")
             /\ Before("st.warning:Not enough data to calculate fair value",
                       "openai:chat.completions.create")

=============================================================================
